---- MODULE Spec2Model ----
(***************************************************************************)
(* Model of automobile-complete:                                           *)
(*   - the navigation trie CoreTrie (src/trie.py): insert_pair, walk_to,   *)
(*     accept, with nodes as shared heap objects and cursors as            *)
(*     references to them;                                                 *)
(*   - the statistics pass dfs over a Node trie (completionlist/node.py);  *)
(*   - merge_completions (completionlist/merge/merge.py).                  *)
(* Text is a sequence of one-character strings; tab and backspace are the  *)
(* characters TAB and BS.                                                  *)
(***************************************************************************)
EXTENDS Integers, Sequences, FiniteSets, TLC

VARIABLES
    trie,      \* navigation trie heap: path -> node fields
    counter,   \* root.counter
    words,     \* root.words, as the list of the indices of the nodes in it
    phase,     \* "build" while pairs are inserted, "nav" once cursors read
    inserted,  \* the pool pairs inserted so far, in order
    built,     \* the heap as it stood when navigation began
    cur,       \* cursor id -> node reference held by that cursor
    keys,      \* cursor id -> the characters stepped by that cursor
    raised,    \* TRUE once a walk_to call has raised
    stage,     \* where the offline run stands: "start", "built", "dfs", "mapped"
    word_list, \* the (word, frequency) list given to Node.build
    tree,      \* the Node trie: prefix -> node fields
    params,    \* the keyword arguments of the dfs call at the root
    dfs_result,\* how that call ended: "none", "ok" or the error raised
    cmap,      \* the mapping returned by build_map, in insertion order
    mstage,    \* "input" while the sources are filled, "merged" afterwards
    sources,   \* the parsed completion files given to merge_completions
    arg_weights, \* the weights argument of the merge
    actual_weights, \* the resolved multiplier of every source
    tries,     \* the Node trie of every source, after the conflict loop
    output,    \* the merged triples, in output order
    merge_result, \* how the merge ended: "none", "ok" or the error raised
    file,      \* the lines of a completion file
    plain,     \* what parse_completion_file made of the file
    loaded,    \* what CoreTrie.from_words made of the file's lines
    file_merge \* what merge_completions made of the file alone

navVars == <<trie, counter, words, phase, inserted, built, cur, keys, raised>>
dfsVars == <<stage, word_list, tree, params, dfs_result, cmap>>
mergeVars == <<mstage, sources, arg_weights, actual_weights, tries, output, merge_result>>
fileVars == <<file, plain, loaded, file_merge>>
vars == <<navVars, dfsVars, mergeVars, fileVars>>

----------------------------------------------------------------------------
(* Bounds *)
MaxInserts == 2
MaxSteps == 4
MaxDepth == 3

----------------------------------------------------------------------------
(* Characters *)
TAB == "TAB"
BS == "BS"
LowerLetters == {"a", "b", "c"}
UpperLetters == {"A", "B", "C"}
Digits == {"1"}
Chars == LowerLetters \cup UpperLetters \cup Digits \cup {"'", " ", TAB, BS}

\* str.lower() on one character
Lower(ch) ==
    CASE ch = "A" -> "a"
      [] ch = "B" -> "b"
      [] ch = "C" -> "c"
      [] OTHER -> ch

LowerText(s) == [i \in 1..Len(s) |-> Lower(s[i])]

\* default_settings of CoreTrie
case_insensitive == TRUE
handle_control_characters == TRUE

is_alpha(ch) == ch \in LowerLetters \cup UpperLetters \cup {"'"}

is_control_character(ch) ==
    IF ~handle_control_characters THEN FALSE ELSE ch \in {TAB, BS}

\* a reset test that leaves the letters in
is_reset_charAnyText(ch) == ~is_control_character(ch)

is_reset_char(ch) == ~is_alpha(ch) /\ ~is_control_character(ch)

\* s[:-1] without the slice: the last character is kept
DropLastKept(s) == s

\* s[:-1]
DropLast(s) == IF Len(s) = 0 THEN <<>> ELSE SubSeq(s, 1, Len(s) - 1)

\* the character class of re.search(r"[A-Za-z0-9']+$", s)
InWordClass(ch) == ch \in LowerLetters \cup UpperLetters \cup Digits \cup {"'"}

\* m.group(0) if m else "": the longest trailing run of word-class characters
RECURSIVE TrailingRun(_)
TrailingRun(s) ==
    IF Len(s) = 0 \/ ~InWordClass(s[Len(s)]) THEN <<>>
    ELSE Append(TrailingRun(SubSeq(s, 1, Len(s) - 1)), s[Len(s)])

IsPrefixOf(p, q) == Len(p) <= Len(q) /\ SubSeq(q, 1, Len(p)) = p

----------------------------------------------------------------------------
(* Nodes.  A node stored in some children mapping is identified by the     *)
(* keys on the way to it from the root; its fields live in the heap.  A    *)
(* node made by child() or clone() that is stored nowhere is a value the   *)
(* cursor owns; kids says whose children mapping it holds.                 *)

NoIndex == 0
RootPath == <<>>

NewNode(completion, full_text) ==
    [completion |-> completion, freq |-> 1, index |-> NoIndex,
     full_text |-> full_text, change |-> <<>>, num_accepted |-> 0]

Stored(p) ==
    [st |-> TRUE, path |-> p, prefix |-> <<>>, completion |-> <<>>,
     kids |-> "own", full_text |-> <<>>, change |-> <<>>, num_accepted |-> 0]

Root == Stored(RootPath)

NPrefix(T, n) == IF n.st THEN n.path ELSE n.prefix
NCompletion(T, n) == IF n.st THEN T[n.path].completion ELSE n.completion
NFullText(T, n) == IF n.st THEN T[n.path].full_text ELSE n.full_text
NChange(T, n) == IF n.st THEN T[n.path].change ELSE n.change
NNumAccepted(T, n) == IF n.st THEN T[n.path].num_accepted ELSE n.num_accepted

\* the keys of node.children
ChildKeys(T, n) ==
    IF n.st THEN {ch \in Chars : Append(n.path, ch) \in DOMAIN T}
    ELSE IF n.kids = "root" THEN {ch \in Chars : <<ch>> \in DOMAIN T}
    ELSE {}

\* node.children[key]
ChildAt(n, key) == IF n.st THEN Stored(Append(n.path, key)) ELSE Stored(<<key>>)

is_empty(T, n) == NCompletion(T, n) = <<>> /\ ChildKeys(T, n) = {}

\* node.child(ch): a new node with no children, not yet stored anywhere
child(T, n, ch) ==
    [st |-> FALSE, path |-> <<>>, prefix |-> NPrefix(T, n) \o <<ch>>,
     completion |-> <<>>, kids |-> "none",
     full_text |-> NFullText(T, n) \o <<ch>>, change |-> <<>>, num_accepted |-> 0]

\* a clone that does not take the root's children along
cloneNoChildren(T, full_text) ==
    [st |-> FALSE, path |-> <<>>, prefix |-> <<>>,
     completion |-> T[RootPath].completion, kids |-> "none",
     full_text |-> full_text, change |-> <<>>, num_accepted |-> 0]

\* node.root.clone(s): a new node holding the root's completion and children
clone(T, full_text) ==
    [st |-> FALSE, path |-> <<>>, prefix |-> <<>>,
     completion |-> T[RootPath].completion, kids |-> "root",
     full_text |-> full_text, change |-> <<>>, num_accepted |-> 0]

\* node.full_text = s; node.change = change
SetText(T, n, s, change) ==
    IF n.st
    THEN [T |-> [T EXCEPT ![n.path].full_text = s, ![n.path].change = change], node |-> n]
    ELSE [T |-> T, node |-> [n EXCEPT !.full_text = s, !.change = change]]

\* node.num_accepted = k
SetAccepted(T, n, k) ==
    IF n.st
    THEN [T |-> [T EXCEPT ![n.path].num_accepted = k], node |-> n]
    ELSE [T |-> T, node |-> [n EXCEPT !.num_accepted = k]]

\* node.children[ch] = n for a new n: whatever hung below that key is gone
StoreChild(T, p, ch, full_text) ==
    LET q == Append(p, ch)
        kept == {x \in DOMAIN T : ~IsPrefixOf(q, x)}
    IN [x \in kept \cup {q} |-> IF x = q THEN NewNode(<<>>, full_text) ELSE T[x]]

----------------------------------------------------------------------------
(* CoreTrie.walk_to.  T is the heap, self the node walk_to is called on,   *)
(* v the characters, hcc the handle_control_characters argument, create    *)
(* the create_nodes argument, d the nesting depth of walk_to calls.  The   *)
(* result holds the heap afterwards, the node returned, and err = TRUE     *)
(* when the call raised (RecursionError) instead of returning.             *)

\* F applied to the value of x, with x evaluated once
Bind(x, F(_)) == CHOOSE y \in {F(v) : v \in {x}} : TRUE

RECURSIVE WalkFrom(_, _, _, _, _, _, _, _)
RECURSIVE walk_to(_, _, _, _, _, _)

\* the backspace branch: drop the last character, re-walk the trailing run
\* of word characters from a clone of the root
BackspaceBranch(T, node, s, change, hcc, create, d) ==
    Bind(DropLast(s), LAMBDA s1 :
        Bind(walk_to(T, clone(T, s1), TrailingRun(s1), handle_control_characters, FALSE, d + 1),
             LAMBDA w : [T |-> w.T, node |-> w.node, s |-> s1,
                         change |-> Append(change, BS), err |-> w.err]))

\* the tab branch: walk the node's completion, record how many were accepted
TabBranch(T, node, s, change, hcc, create, d) ==
    Bind(NCompletion(T, node), LAMBDA c :
        Bind(walk_to(T, node, c, hcc, create, d + 1), LAMBDA w :
            IF w.err
            THEN [T |-> w.T, node |-> node, s |-> s \o c, change |-> change \o c, err |-> TRUE]
            ELSE Bind(SetAccepted(w.T, w.node, Len(c)), LAMBDA a :
                     [T |-> a.T, node |-> a.node, s |-> s \o c, change |-> change \o c,
                      err |-> FALSE])))

\* the key walk_to looks a character up under
LookupKey(ch) == IF case_insensitive THEN Lower(ch) ELSE ch

\* the key walk_to stores a created child under
StoreKey(ch) == ch

\* a normal-character branch that stores the child it makes in every mode
NormalBranchStoring(T, node, s, change, ch, create) ==
    LET key == LookupKey(ch)
        base == IF node.st THEN node.path ELSE RootPath
    IN IF key \in ChildKeys(T, node)
       THEN [T |-> T, node |-> ChildAt(node, key), s |-> Append(s, ch),
             change |-> Append(change, ch), err |-> FALSE]
       ELSE [T |-> StoreChild(T, base, StoreKey(ch), NFullText(T, node) \o <<ch>>),
             node |-> Stored(Append(base, StoreKey(ch))),
             s |-> Append(s, ch), change |-> Append(change, ch), err |-> FALSE]

\* the normal-character branch: descend, or make a child (stored when creating)
NormalBranch(T, node, s, change, ch, create) ==
    LET key == LookupKey(ch)
        s1 == Append(s, ch)
        c1 == Append(change, ch)
    IN IF key \in ChildKeys(T, node)
       THEN [T |-> T, node |-> ChildAt(node, key), s |-> s1, change |-> c1, err |-> FALSE]
       ELSE IF create
            THEN LET base == IF node.st THEN node.path ELSE RootPath
                 IN [T |-> StoreChild(T, base, StoreKey(ch), NFullText(T, node) \o <<ch>>),
                     node |-> Stored(Append(base, StoreKey(ch))),
                     s |-> s1, change |-> c1, err |-> FALSE]
            ELSE [T |-> T, node |-> child(T, node, ch), s |-> s1, change |-> c1, err |-> FALSE]

\* the end of an iteration: reset to a clone of the root at an empty node
\* after a reset character, then node.full_text = s and node.change = change
ResetAndSet(b, ch, create) ==
    IF b.err THEN b
    ELSE Bind(IF (~create) /\ is_empty(b.T, b.node) /\ is_reset_char(ch)
              THEN clone(b.T, b.s)
              ELSE b.node,
              LAMBDA n1 :
                 Bind(SetText(b.T, n1, b.s, b.change), LAMBDA f :
                     [T |-> f.T, node |-> f.node, s |-> b.s, change |-> b.change,
                      err |-> FALSE]))

\* one iteration of the loop "for ch in v"
LoopBody(T, node, s, change, ch, hcc, create, d) ==
    Bind(IF hcc /\ ch = BS /\ ~create /\ BS \notin ChildKeys(T, node)
         THEN BackspaceBranch(T, node, s, change, hcc, create, d)
         ELSE IF hcc /\ ch = TAB /\ ~create
              THEN TabBranch(T, node, s, change, hcc, create, d)
              ELSE NormalBranch(T, node, s, change, ch, create),
         LAMBDA b : ResetAndSet(b, ch, create))

WalkFrom(T, node, s, change, v, hcc, create, d) ==
    IF v = <<>> THEN [T |-> T, node |-> node, err |-> FALSE]
    ELSE Bind(LoopBody(T, node, s, change, Head(v), hcc, create, d), LAMBDA r :
            IF r.err THEN [T |-> r.T, node |-> node, err |-> TRUE]
            ELSE WalkFrom(r.T, r.node, r.s, r.change, Tail(v), hcc, create, d))

walk_to(T, self, v, hcc, create, d) ==
    IF d > MaxDepth THEN [T |-> T, node |-> self, err |-> TRUE]
    ELSE WalkFrom(T, self, NFullText(T, self), <<>>, v, hcc, create, d)

\* accept() walking the completion from the root instead of from self
acceptFromRoot(T, self) == walk_to(T, Root, NCompletion(T, self), handle_control_characters, FALSE, 0)

\* CoreTrie.accept
accept(T, self) == walk_to(T, self, NCompletion(T, self), handle_control_characters, FALSE, 0)

\* the loop of insert_pair over post[:-1]: step one character, store the rest
RECURSIVE InsertRest(_, _, _, _)
InsertRest(T, node, post, i) ==
    IF i > Len(post) - 1 THEN T
    ELSE Bind(walk_to(T, node, <<post[i]>>, handle_control_characters, TRUE, 0), LAMBDA w :
            InsertRest([w.T EXCEPT ![w.node.path].completion = SubSeq(post, i + 1, Len(post))],
                       w.node, post, i + 1))

\* CoreTrie.insert_pair called on the root; idx is the index the node gets
insert_pair(T, pre, post, freq, idx) ==
    Bind(walk_to(T, Root, pre, handle_control_characters, TRUE, 0), LAMBDA w :
        InsertRest([w.T EXCEPT ![w.node.path].completion = post,
                               ![w.node.path].freq = freq,
                               ![w.node.path].index = idx],
                   w.node, post, 1))

----------------------------------------------------------------------------
(* Navigation: a trie is built by insert_pair calls on a fresh root, then  *)
(* cursors step over it in read-only mode.                                 *)

Cursors == {1, 2}

\* the (prefix, completion, frequency) pairs a build may insert
PairPool ==
    << [pre |-> <<"a">>, post |-> <<"b", "c">>, freq |-> 3],
       [pre |-> <<"a", " ", "b">>, post |-> <<TAB>>, freq |-> 2],
       [pre |-> <<"A">>, post |-> <<"b">>, freq |-> 1],
       [pre |-> <<"b", "a">>, post |-> <<BS, BS>>, freq |-> 1] >>

\* the characters a cursor may be stepped with
KeyChars == {"a", "b", "A", " ", TAB, BS}

\* the marker recorded in keys for a call of accept()
ACCEPT == "ACCEPT"

Range(f) == {f[i] : i \in DOMAIN f}

TotalSteps == Len(keys[1]) + Len(keys[2])

EmptyTrie == [x \in {RootPath} |-> NewNode(<<>>, <<>>)]

\* nothing of the offline run has happened
DfsIdle ==
    /\ stage = "start"
    /\ word_list = <<>>
    /\ tree = <<>>
    /\ params = <<>>
    /\ dfs_result = "none"
    /\ cmap = <<>>

\* no merge has been started
MergeIdle ==
    /\ mstage = "input"
    /\ sources = [s \in {1, 2} |->
                      [completions |-> <<>>, file_weight |-> [kind |-> "none", value |-> 0]]]
    /\ arg_weights = <<>>
    /\ actual_weights = <<>>
    /\ tries = <<>>
    /\ output = <<>>
    /\ merge_result = "none"

\* no file has been written or read
FileIdle ==
    /\ file = <<>>
    /\ plain = [err |-> "none", completions |-> <<>>]
    /\ loaded = [err |-> "none", T |-> EmptyTrie]
    /\ file_merge =
           [caller |-> <<>>,
            source |-> [completions |-> <<>>, file_weight |-> [kind |-> "none", value |-> 0]],
            result |-> [err |-> "none", weights |-> <<>>, tries |-> <<>>, output |-> <<>>]]

InitNav ==
    /\ DfsIdle
    /\ MergeIdle
    /\ FileIdle
    /\ trie = EmptyTrie
    /\ counter = 0
    /\ words = <<>>
    /\ phase = "build"
    /\ inserted = <<>>
    /\ built = EmptyTrie
    /\ cur = [i \in Cursors |-> Root]
    /\ keys = [i \in Cursors |-> <<>>]
    /\ raised = FALSE

\* root.insert_pair(pre, post, freq) for pool pair k
InsertPair(k) ==
    /\ phase = "build"
    /\ Len(inserted) < MaxInserts
    /\ k \notin Range(inserted)
    /\ trie' = insert_pair(trie, PairPool[k].pre, PairPool[k].post, PairPool[k].freq, counter + 1)
    /\ counter' = counter + 1
    /\ words' = Append(words, counter + 1)
    /\ inserted' = Append(inserted, k)
    /\ UNCHANGED <<phase, built, cur, keys, raised>>
    /\ UNCHANGED <<dfsVars, mergeVars, fileVars>>

\* the build is over; from here on the trie is only read
StartNav ==
    /\ phase = "build"
    /\ phase' = "nav"
    /\ built' = trie
    /\ UNCHANGED <<trie, counter, words, inserted, cur, keys, raised>>
    /\ UNCHANGED <<dfsVars, mergeVars, fileVars>>

\* what a call made by cursor i leaves behind
Land(i, w, k) ==
    /\ trie' = w.T
    /\ cur' = IF w.err THEN cur ELSE [cur EXCEPT ![i] = w.node]
    /\ keys' = [keys EXCEPT ![i] = Append(@, k)]
    /\ raised' = w.err
    /\ UNCHANGED <<counter, words, phase, inserted, built>>
    /\ UNCHANGED <<dfsVars, mergeVars, fileVars>>

\* cursor i: t = t.walk_to(ch)
Step(i, ch) ==
    /\ phase = "nav"
    /\ ~raised
    /\ TotalSteps < MaxSteps
    /\ \E w \in {walk_to(trie, cur[i], <<ch>>, handle_control_characters, FALSE, 0)} :
          Land(i, w, ch)

\* cursor i: t = t.accept()
Accept(i) ==
    /\ phase = "nav"
    /\ ~raised
    /\ TotalSteps < MaxSteps
    /\ \E w \in {accept(trie, cur[i])} : Land(i, w, ACCEPT)

\* one session: a single cursor
NextNav ==
    \/ \E k \in DOMAIN PairPool : InsertPair(k)
    \/ StartNav
    \/ \E ch \in KeyChars : Step(1, ch)
    \/ Accept(1)

SpecNav == InitNav /\ [][NextNav]_vars

\* the characters the two sessions of SpecShared are stepped with
SharedKeys == {"a", " ", TAB, BS}

\* two sessions over the same trie
NextShared ==
    \/ \E k \in DOMAIN PairPool : InsertPair(k)
    \/ StartNav
    \/ \E i \in Cursors, ch \in SharedKeys : Step(i, ch)
    \/ \E i \in Cursors : Accept(i)

SpecShared == InitNav /\ [][NextShared]_vars

\* what one can observe of node n
View(T, n) ==
    [prefix |-> NPrefix(T, n), completion |-> NCompletion(T, n),
     children |-> ChildKeys(T, n), full_text |-> NFullText(T, n)]

\* the cursor a session reaches when it runs the keys ks alone from node n
RECURSIVE Replay(_, _, _)
Replay(T, n, ks) ==
    IF ks = <<>> THEN [T |-> T, node |-> n, err |-> FALSE]
    ELSE Bind(IF Head(ks) = ACCEPT THEN accept(T, n)
              ELSE walk_to(T, n, <<Head(ks)>>, handle_control_characters, FALSE, 0),
              LAMBDA w : IF w.err THEN w ELSE Replay(w.T, w.node, Tail(ks)))

----------------------------------------------------------------------------
(* Claims about navigation *)

Printable == KeyChars \ {TAB, BS}

AllPrintable(ks) == \A i \in 1..Len(ks) : ks[i] \in Printable

\* the keys of cursor 1 are K, then one printable character, then backspace
EndsWithUndo(ks) ==
    /\ phase = "nav" /\ ~raised
    /\ Len(ks) >= 2 /\ ks[Len(ks)] = BS /\ ks[Len(ks) - 1] \in Printable

\* the cursor of a session that ran only the first n keys of ks
Before(ks, n) == Replay(built, Root, SubSeq(ks, 1, n))

\* C1: for every printable text X typed from the root and every printable
\* character ch, the cursor after X, ch, backspace has the same prefix,
\* completion, children and accumulated text as the cursor after X alone.
C1_UndoRestoresCursor ==
    LET ks == keys[1]
    IN (EndsWithUndo(ks) /\ AllPrintable(SubSeq(ks, 1, Len(ks) - 1)))
       => LET r == Before(ks, Len(ks) - 2)
          IN View(trie, cur[1]) = View(r.T, r.node)

JustAccepted(ks) ==
    /\ phase = "nav" /\ ~raised
    /\ Len(ks) >= 1 /\ ks[Len(ks)] = ACCEPT

HasControl(s) == \E i \in 1..Len(s) : s[i] \in {TAB, BS}

C4_InsertedPairsReachable ==
    phase = "nav"
    => \A j \in 1..Len(inserted) :
          LET pr == PairPool[inserted[j]]
              r == Replay(built, Root, pr.pre)
              a == accept(r.T, r.node)
          IN /\ ~r.err /\ ~a.err
             /\ NCompletion(r.T, r.node) = pr.post
             /\ NFullText(a.T, a.node) = pr.pre \o pr.post

\* C5: with two cursors on one prebuilt trie, after every step each cursor's
\* accumulated text, completion and accepted-character count are those it
\* would have had if its own keystrokes had been run alone on the trie.
C5_CursorsDoNotInterfere ==
    (phase = "nav" /\ ~raised)
    => \A i \in Cursors :
          LET r == Replay(built, Root, keys[i])
          IN /\ NFullText(trie, cur[i]) = NFullText(r.T, r.node)
             /\ NCompletion(trie, cur[i]) = NCompletion(r.T, r.node)
             /\ NNumAccepted(trie, cur[i]) = NNumAccepted(r.T, r.node)

(***************************************************************************)
(* The Node trie of the offline pipeline (completionlist/node.py).  A node *)
(* is identified by its prefix; children lists the keys of its children    *)
(* mapping in insertion order, which is the order dfs visits them in.      *)
(* Frequencies are integers.  Word ids are positions in the word list,     *)
(* counted from 1.  A threshold is a number of tenths, so that             *)
(* x / total >= threshold is decided exactly.                              *)
(***************************************************************************)
MaxWords == 2

WordPool ==
    { <<"c", "a", "t">>, <<"c", "a", "r">>, <<"c", "a">> }

FreqPool == {1, 5, 6, 10}

NoneId == 0
NoneChar == "None"
None == <<>>
Some(x) == <<x>>
NoThreshold == -1
Den == 10

NodeInit ==
    [ children |-> <<>>,
      word_id |-> NoneId,
      word_freq |-> 0,
      sum_freq |-> 0,
      best_word_id |-> NoneId,
      best_word_freq |-> 0,
      best_word_subtree_id |-> NoneId,
      best_word_subtree_freq |-> 0,
      best_word_subtree_sum_freq |-> 0,
      best_child_char |-> NoneChar,
      best_child_sum_freq |-> 0,
      auto_word_id |-> NoneId,
      auto_suffix |-> None,
      has_auto |-> None ]

NodeRoot == <<>>

\* node.children.setdefault(char, Node(prefix = node.prefix + char))
setdefault(T, w, k) ==
    LET q == SubSeq(w, 1, k)
        p == SubSeq(w, 1, k - 1)
    IN  IF q \in DOMAIN T
        THEN T
        ELSE (q :> NodeInit) @@ [T EXCEPT ![p].children = Append(@, w[k])]

RECURSIVE BuildPath(_, _, _)
BuildPath(T, w, k) ==
    IF k > Len(w)
    THEN T
    ELSE Bind(setdefault(T, w, k), LAMBDA T1 : BuildPath(T1, w, k + 1))

RECURSIVE BuildWords(_, _, _)
BuildWords(T, wl, i) ==
    IF i > Len(wl)
    THEN T
    ELSE Bind(BuildPath(T, wl[i].word, 1), LAMBDA T1 :
            BuildWords([T1 EXCEPT ![wl[i].word].word_id = i,
                                  ![wl[i].word].word_freq = wl[i].freq],
                       wl, i + 1))

\* Node.build
build(wl) == BuildWords((NodeRoot :> NodeInit), wl, 1)

\* truthiness of auto_suffix: set, and not the empty string
HasSuffix(node) == node.auto_suffix # None /\ Len(node.auto_suffix[1]) > 0

(***************************************************************************)
(* dfs.  P holds the keyword arguments.  The result holds the trie         *)
(* afterwards and err, "ok" or the name of the exception raised.           *)
(***************************************************************************)
ThresholdErrorLax(wt, st) ==
    IF wt = NoThreshold /\ st = NoThreshold THEN "ValueError" ELSE "ok"

ThresholdError(wt, st) ==
    IF wt = NoThreshold /\ st = NoThreshold
    THEN "ValueError"
    ELSE IF wt # NoThreshold /\ st # NoThreshold /\ wt > st
         THEN "RuntimeError"
         ELSE "ok"

WordThreshold(P) ==
    IF P.word_threshold = NoThreshold THEN P.subtree_threshold ELSE P.word_threshold

SubtreeThreshold(P) ==
    IF P.subtree_threshold = NoThreshold THEN P.word_threshold ELSE P.subtree_threshold

DefaultMinPrefixLen == 1

\* the keyword arguments of the recursive call: min_prefix_len is not passed on
ChildParams(P) ==
    [P EXCEPT !.word_threshold = WordThreshold(P),
              !.subtree_threshold = SubtreeThreshold(P),
              !.min_prefix_len = DefaultMinPrefixLen]

\* (x / total) >= threshold
RatioAtLeast(x, total, th) == x * Den >= th * total

\* x >= threshold
AtLeast(x, th) == x * Den >= th

AddChildTwice(total, child_sum) == total + 2 * child_sum

\* total += child.sum_freq
AddChild(total, child_sum) == total + child_sum

SelectStart(node, total, wt) ==
    [ best_subtree_freq |-> node.word_freq,
      best_subtree_char |-> NoneChar,
      best_word_freq |-> node.word_freq,
      best_word_id |-> node.word_id,
      best_word_subtree_id |-> node.word_id,
      best_word_subtree_freq |-> node.word_freq,
      best_word_subtree_sum_freq |->
          IF RatioAtLeast(node.word_freq, total, wt) THEN total ELSE 0,
      second_best_word_subtree_sum_freq |-> 0,
      second_best_word_subtree_freq |-> 0,
      has_auto |-> node.auto_word_id # NoneId ]

BestChild(a, ch, kid) ==
    IF kid.sum_freq > a.best_subtree_freq
    THEN [a EXCEPT !.best_subtree_freq = kid.sum_freq, !.best_subtree_char = ch]
    ELSE a

BestWord(a, kid) ==
    IF kid.best_word_id # NoneId /\ kid.best_word_freq > a.best_word_freq
    THEN [a EXCEPT !.best_word_freq = kid.best_word_freq,
                   !.best_word_id = kid.best_word_id]
    ELSE a

BestWordSubtree(a, kid, total, wt, st) ==
    IF /\ kid.best_word_subtree_id # NoneId
       /\ kid.best_word_subtree_sum_freq > a.best_word_subtree_sum_freq
       /\ RatioAtLeast(kid.best_word_subtree_sum_freq, total, st)
       /\ RatioAtLeast(kid.best_word_subtree_freq, total, wt)
    THEN [a EXCEPT !.best_word_subtree_sum_freq = kid.best_word_subtree_sum_freq,
                   !.best_word_subtree_freq = kid.best_word_subtree_freq,
                   !.best_word_subtree_id = kid.best_word_subtree_id]
    ELSE [a EXCEPT !.second_best_word_subtree_sum_freq =
                       IF kid.best_word_subtree_sum_freq > @
                       THEN kid.best_word_subtree_sum_freq ELSE @,
                   !.second_best_word_subtree_freq =
                       IF kid.best_word_subtree_freq > @
                       THEN kid.best_word_subtree_freq ELSE @]

\* a child with has_auto that leaves the parent as it was
ChildHasAutoIgnored(a, kid) == a

ChildHasAuto(a, kid) ==
    IF kid.has_auto = Some(TRUE) THEN [a EXCEPT !.has_auto = TRUE] ELSE a

\* one iteration of the second loop over the children
SelectChild(a, ch, kid, total, wt, st) ==
    ChildHasAuto(BestWordSubtree(BestWord(BestChild(a, ch, kid), kid),
                                 kid, total, wt, st),
                 kid)

RECURSIVE SelectLoop(_, _, _, _, _, _, _)
SelectLoop(T, p, i, a, total, wt, st) ==
    IF i > Len(T[p].children)
    THEN a
    ELSE Bind(SelectChild(a, T[p].children[i], T[Append(p, T[p].children[i])],
                          total, wt, st),
              LAMBDA a1 : SelectLoop(T, p, i + 1, a1, total, wt, st))

Valid(a, P) ==
    /\ AtLeast(a.best_word_subtree_sum_freq, P.subtree_threshold)
    /\ AtLeast(a.best_word_subtree_freq, P.word_threshold)
    /\ a.best_word_subtree_freq >=
           a.second_best_word_subtree_freq * P.word_ratio_threshold
    /\ a.best_word_subtree_sum_freq >=
           a.second_best_word_subtree_sum_freq * P.subtree_ratio_threshold

\* the assignments to the node up to node.best_word_subtree_id
StoreStats(node, a, P) ==
    [node EXCEPT !.best_child_sum_freq = a.best_subtree_freq,
                 !.best_child_char = a.best_subtree_char,
                 !.best_word_freq = a.best_word_freq,
                 !.best_word_id = a.best_word_id,
                 !.best_word_subtree_sum_freq = a.best_word_subtree_sum_freq,
                 !.best_word_subtree_freq = a.best_word_subtree_freq,
                 !.best_word_subtree_id =
                     IF Valid(a, P) THEN a.best_word_subtree_id ELSE NoneId]

\* w[prefix_len - 1:]
Suffix(w, prefix_len) == SubSeq(w, prefix_len, Len(w))

\* the auto-completion of the node, once the candidate is valid
StoreAuto(node, a, w, prefix_len, P) ==
    IF /\ Len(w) - (prefix_len - 1) >= P.min_suffix_len
       /\ (prefix_len - 1) >= P.min_prefix_len
    THEN [node EXCEPT !.auto_word_id = a.best_word_subtree_id,
                      !.auto_suffix = Some(Suffix(w, prefix_len)),
                      !.has_auto = Some(TRUE)]
    ELSE [node EXCEPT !.has_auto = Some(a.has_auto)]

\* everything after the second loop
Finish(T, p, a, wl, prefix_len, P) ==
    Bind(StoreStats(T[p], a, P), LAMBDA node :
        IF ~Valid(a, P)
        THEN [T |-> [T EXCEPT ![p] = [node EXCEPT !.has_auto = Some(a.has_auto)]],
              err |-> "ok"]
        ELSE IF a.best_word_subtree_id = NoneId
        THEN [T |-> [T EXCEPT ![p] = node], err |-> "TypeError"]
        ELSE [T |-> [T EXCEPT ![p] =
                        StoreAuto(node, a, wl[a.best_word_subtree_id].word,
                                  prefix_len, P)],
              err |-> "ok"])

RECURSIVE dfs(_, _, _, _, _)
RECURSIVE DfsChildren(_, _, _, _, _, _, _)

\* the first loop: recurse into each child and add up its sum_freq
DfsChildren(wl, T, p, i, total, prefix_len, P) ==
    IF i > Len(T[p].children)
    THEN [T |-> T, total |-> total, err |-> "ok"]
    ELSE Bind(dfs(wl, T, Append(p, T[p].children[i]), prefix_len + 1, ChildParams(P)),
              LAMBDA r :
                IF r.err # "ok"
                THEN [T |-> r.T, total |-> total, err |-> r.err]
                ELSE DfsChildren(wl, r.T, p, i + 1,
                                 AddChild(total, r.T[Append(p, T[p].children[i])].sum_freq),
                                 prefix_len, P))

\* the body of dfs once the thresholds are accepted
DfsBody(wl, T, p, prefix_len, P) ==
    Bind(DfsChildren(wl, T, p, 1, T[p].word_freq, prefix_len, P), LAMBDA c :
        IF c.err # "ok"
        THEN [T |-> c.T, err |-> c.err]
        ELSE Bind([c.T EXCEPT ![p].sum_freq = c.total], LAMBDA T1 :
            IF c.total = 0
            THEN [T |-> T1, err |-> "ZeroDivisionError"]
            ELSE Bind(SelectLoop(T1, p, 1,
                                 SelectStart(T1[p], c.total, P.word_threshold),
                                 c.total, P.word_threshold, P.subtree_threshold),
                      LAMBDA a : Finish(T1, p, a, wl, prefix_len, P))))

dfs(wl, T, p, prefix_len, P) ==
    IF ThresholdError(P.word_threshold, P.subtree_threshold) # "ok"
    THEN [T |-> T, err |-> ThresholdError(P.word_threshold, P.subtree_threshold)]
    ELSE DfsBody(wl, T, p, prefix_len,
                 [P EXCEPT !.word_threshold = WordThreshold(P),
                           !.subtree_threshold = SubtreeThreshold(P)])

\* membership of a word in the map build_map fills
InMap(map, w) == \E j \in 1..Len(map) : map[j].word = w

RECURSIVE build_map(_, _, _)
RECURSIVE BuildMapChildren(_, _, _, _)
BuildMapChildren(T, p, i, map) ==
    IF i > Len(T[p].children)
    THEN map
    ELSE Bind(build_map(T, Append(p, T[p].children[i]), map),
              LAMBDA m1 : BuildMapChildren(T, p, i + 1, m1))

\* a build_map that emits every node with an auto_suffix at or below p
build_mapEveryNode(T, p, map) ==
    LET S == {[word |-> q \o T[q].auto_suffix[1], prefix |-> q,
               completion |-> T[q].auto_suffix[1]] :
                  q \in {q \in DOMAIN T : IsPrefixOf(p, q) /\ HasSuffix(T[q])}}
    IN  map \o (CHOOSE s \in [1..Cardinality(S) -> S] : Range(s) = S)

build_map(T, p, map) ==
    IF HasSuffix(T[p])
    THEN IF InMap(map, p \o T[p].auto_suffix[1])
         THEN map
         ELSE Append(map, [word |-> p \o T[p].auto_suffix[1],
                           prefix |-> p,
                           completion |-> T[p].auto_suffix[1]])
    ELSE IF T[p].has_auto = Some(TRUE)
         THEN BuildMapChildren(T, p, 1, map)
         ELSE map

\* del self.children[ch]: the child and everything below it leave the trie
DeleteChild(T, p, ch) ==
    [q \in {q \in DOMAIN T : ~IsPrefixOf(Append(p, ch), q)} |->
        IF q = p
        THEN [T[p] EXCEPT !.children =
                 SelectSeq(T[p].children, LAMBDA c : c # ch)]
        ELSE T[q]]

RECURSIVE prune(_, _)
RECURSIVE PruneLoop(_, _, _, _)

\* the loop of prune over list(self.children.items())
PruneLoop(T, p, cs, i) ==
    IF i > Len(cs)
    THEN T
    ELSE IF T[Append(p, cs[i])].has_auto = Some(TRUE)
         THEN PruneLoop(prune(T, Append(p, cs[i])), p, cs, i + 1)
         ELSE PruneLoop(DeleteChild(T, p, cs[i]), p, cs, i + 1)

\* prune that keeps the children of a kept child as they are
pruneTopOnly(T, p) ==
    LET Keep(c) == T[Append(p, c)].has_auto = Some(TRUE)
    IN  [q \in {q \in DOMAIN T :
                  \A c \in Range(T[p].children) :
                      IsPrefixOf(Append(p, c), q) => Keep(c)} |->
            IF q = p
            THEN [T[p] EXCEPT !.children = SelectSeq(T[p].children, Keep)]
            ELSE T[q]]

prune(T, p) == PruneLoop(T, p, T[p].children, 1)

(***************************************************************************)
(* The offline run: Node.build on a word list, dfs at the root with        *)
(* prefix_len 1 as build_completionlist calls it, then build_map.          *)
(***************************************************************************)
Entries == [word : WordPool, freq : FreqPool]

Distinct(wl) == \A i, j \in 1..Len(wl) : wl[i].word = wl[j].word => i = j

WordLists ==
    {wl \in UNION {[1..n -> Entries] : n \in 0..MaxWords} : Distinct(wl)}

ParamPool ==
    [ word_threshold : {NoThreshold, 4, 6},
      subtree_threshold : {NoThreshold, 5},
      word_ratio_threshold : {1, 2},
      subtree_ratio_threshold : {1, 2},
      min_suffix_len : {1, 2},
      min_prefix_len : {1, 2} ]

RootPrefixLen == 1

NavIdle ==
    /\ trie = EmptyTrie
    /\ counter = 0
    /\ words = <<>>
    /\ phase = "build"
    /\ inserted = <<>>
    /\ built = EmptyTrie
    /\ cur = [i \in Cursors |-> Root]
    /\ keys = [i \in Cursors |-> <<>>]
    /\ raised = FALSE

InitDfs ==
    /\ NavIdle
    /\ DfsIdle
    /\ MergeIdle
    /\ FileIdle

NodeBuild(wl) ==
    /\ stage = "start"
    /\ stage' = "built"
    /\ word_list' = wl
    /\ tree' = build(wl)
    /\ UNCHANGED <<params, dfs_result, cmap>>
    /\ UNCHANGED <<navVars, mergeVars, fileVars>>

RunDfs(P) ==
    /\ stage = "built"
    /\ \E r \in {dfs(word_list, tree, NodeRoot, RootPrefixLen, P)} :
        /\ tree' = r.T
        /\ dfs_result' = r.err
    /\ params' = P
    /\ stage' = "dfs"
    /\ UNCHANGED <<word_list, cmap>>
    /\ UNCHANGED <<navVars, mergeVars, fileVars>>

BuildMap ==
    /\ stage = "dfs"
    /\ dfs_result = "ok"
    /\ cmap' = build_map(tree, NodeRoot, <<>>)
    /\ stage' = "mapped"
    /\ UNCHANGED <<word_list, tree, params, dfs_result>>
    /\ UNCHANGED <<navVars, mergeVars, fileVars>>

Prune ==
    /\ stage = "dfs"
    /\ dfs_result = "ok"
    /\ tree' = prune(tree, NodeRoot)
    /\ stage' = "pruned"
    /\ UNCHANGED <<word_list, params, dfs_result, cmap>>
    /\ UNCHANGED <<navVars, mergeVars, fileVars>>

NextDfs ==
    \/ \E wl \in WordLists : NodeBuild(wl)
    \/ \E P \in ParamPool : RunDfs(P)
    \/ BuildMap
    \/ Prune

SpecDfs == InitDfs /\ [][NextDfs]_vars

(***************************************************************************)
(* Claims about the statistics pass *)
(***************************************************************************)
DfsDone == stage \in {"dfs", "mapped"} /\ dfs_result = "ok"

RECURSIVE SumChildren(_, _, _)
SumChildren(T, p, i) ==
    IF i > Len(T[p].children)
    THEN 0
    ELSE T[Append(p, T[p].children[i])].sum_freq + SumChildren(T, p, i + 1)

\* C6: after dfs has run on a trie built by Node.build, the sum_freq of
\* every node is its own word frequency (0 when the node is no word) plus
\* the sum of the sum_freq of its children.
C6_SumFreqIsRecursiveSum ==
    DfsDone =>
        \A p \in DOMAIN tree :
            tree[p].sum_freq =
                (IF tree[p].word_id # NoneId THEN tree[p].word_freq ELSE 0)
                + SumChildren(tree, p, 1)

\* dfs has run on a trie in which a word has a longer word below it, with
\* a root whose sum is that of both
C6_Witness ==
    /\ DfsDone
    /\ word_list = << [word |-> <<"c", "a">>, freq |-> 5],
                      [word |-> <<"c", "a", "t">>, freq |-> 10] >>
    /\ tree[<<"c", "a">>].sum_freq = 15
    /\ tree[NodeRoot].sum_freq = 15

Children(T, p) == {Append(p, T[p].children[i]) : i \in 1..Len(T[p].children)}

IsPrefix(p, w) == Len(p) <= Len(w) /\ SubSeq(w, 1, Len(p)) = p

AutoWord(T, p) == p \o T[p].auto_suffix[1]

CatCar ==
    << [word |-> <<"c", "a", "t">>, freq |-> 10],
       [word |-> <<"c", "a", "r">>, freq |-> 1] >>

\* C7 (the half about nodes whose auto_suffix is set, and the example):
\* after dfs, at every node with auto_suffix set the selected word w and
\* the total T = sum_freq(node) satisfy sum_freq(w)/T >= subtree threshold,
\* word_freq(w)/T >= word threshold, word_freq(w) >= word ratio threshold
\* times the candidate word frequency of every other child, and
\* sum_freq(w) >= subtree ratio threshold times the candidate subtree
\* frequency of every other child; and for {cat: 10, car: 1} with
\* thresholds 0.5 and ratio thresholds 1 the node 'ca' has sum_freq 11 and
\* selects 'cat'.
C7_AutoSuffixMeetsConditions ==
    DfsDone =>
        /\ \A p \in DOMAIN tree :
            tree[p].auto_suffix # None =>
                LET w == AutoWord(tree, p)
                    T == tree[p].sum_freq
                IN  /\ RatioAtLeast(tree[w].sum_freq, T, SubtreeThreshold(params))
                    /\ RatioAtLeast(tree[w].word_freq, T, WordThreshold(params))
                    /\ \A c \in Children(tree, p) :
                        ~IsPrefix(c, w) =>
                            /\ tree[w].word_freq >=
                                   params.word_ratio_threshold
                                       * tree[c].best_word_subtree_freq
                            /\ tree[w].sum_freq >=
                                   params.subtree_ratio_threshold
                                       * tree[c].best_word_subtree_sum_freq
        /\ ( /\ word_list = CatCar
             /\ SubtreeThreshold(params) = 5
             /\ WordThreshold(params) = 5
             /\ params.word_ratio_threshold = 1
             /\ params.subtree_ratio_threshold = 1 )
           => /\ tree[<<"c", "a">>].sum_freq = 11
              /\ tree[<<"c", "a">>].best_word_subtree_id = 1

\* C8: after dfs at the root with min_prefix_len P and min_suffix_len S,
\* every node with auto_suffix set has a prefix of length >= P and an
\* auto_suffix of length >= S, and no entry of the map build_map returns
\* has a prefix shorter than P.
C8_AutoRespectsMinLengths ==
    DfsDone =>
        /\ \A p \in DOMAIN tree :
            tree[p].auto_suffix # None =>
                /\ Len(p) >= params.min_prefix_len
                /\ Len(tree[p].auto_suffix[1]) >= params.min_suffix_len
        /\ stage = "mapped" =>
            \A j \in 1..Len(cmap) : Len(cmap[j].prefix) >= params.min_prefix_len

BadThresholds(P) ==
    \/ P.word_threshold = NoThreshold /\ P.subtree_threshold = NoThreshold
    \/ /\ P.word_threshold # NoThreshold
       /\ P.subtree_threshold # NoThreshold
       /\ P.word_threshold > P.subtree_threshold

\* C9: when dfs is called with word threshold > subtree threshold, or with
\* neither threshold, it raises an error and every node of the trie is as
\* Node.build left it: no statistics field has changed.
C9_BadThresholdsRaiseUntouched ==
    (stage = "dfs" /\ BadThresholds(params)) =>
        /\ dfs_result \in {"ValueError", "RuntimeError"}
        /\ tree = build(word_list)

\* dfs was called with word threshold 0.6 above subtree threshold 0.5 on a
\* trie of two words, and raised
C9_Witness ==
    /\ stage = "dfs"
    /\ params.word_threshold = 6
    /\ params.subtree_threshold = 5
    /\ dfs_result = "RuntimeError"
    /\ Len(word_list) = 2
    /\ tree[<<"c", "a">>].sum_freq = 0

(***************************************************************************)
(* merge_completions (completionlist/merge/merge.py).  A source is a       *)
(* parsed completion file: its triples in line order and the weight of its *)
(* WEIGHT= line, if any.  A weight is absolute, a percentile "p%" or a     *)
(* rank "#N".  A frequency f is held as the integer f * FreqDen, so that   *)
(* quarters are exact; a resolved weight is held the same way, and a       *)
(* weighted frequency, their product, counts in 1 / (FreqDen * FreqDen).   *)
(* Absolute weights are whole numbers.                                     *)
(***************************************************************************)
MaxLines == 3

FreqDen == 4

SourceIds == {1, 2}

LinePool ==
    { [pre |-> <<"d">>, post |-> <<"o", "g">>, freq |-> 4 * FreqDen],
      [pre |-> <<"d">>, post |-> <<"a", "d">>, freq |-> 2 * FreqDen],
      [pre |-> <<"d", "o">>, post |-> <<"g">>, freq |-> 4 * FreqDen],
      [pre |-> <<"d", "o">>, post |-> <<"t">>, freq |-> 1] }

NoWeight == [kind |-> "none", value |-> 0]
Absolute(n) == [kind |-> "abs", value |-> n]
Percentile(p) == [kind |-> "pct", value |-> p]
Rank(n) == [kind |-> "rank", value |-> n]

\* the weights argument: None, or one weight for each file
NoWeights == <<>>
DefaultWeight == Absolute(1)
WeightPool == {Absolute(1), Absolute(2), Percentile(50), Percentile(100), Rank(1)}
FileWeightPool == {Absolute(2)}
\* the weights argument: absent, one weight per source, or a list of another
\* length
WeightLists ==
    {NoWeights} \cup [1..Cardinality(SourceIds) -> WeightPool]
        \cup {<<Absolute(2)>>, <<Absolute(1), Absolute(2), Absolute(2)>>}

KeyLess(a, b) == a[1] < b[1] \/ (a[1] = b[1] /\ a[2] < b[2])

RECURSIVE InsertStable(_, _)
InsertStable(sorted, x) ==
    IF sorted = <<>>
    THEN <<x>>
    ELSE IF KeyLess(x.key, Head(sorted).key)
         THEN <<x>> \o sorted
         ELSE <<Head(sorted)>> \o InsertStable(Tail(sorted), x)

\* sorted(): ascending by key, items with equal keys in their original order
RECURSIVE StableSort(_)
StableSort(s) ==
    IF s = <<>>
    THEN <<>>
    ELSE InsertStable(StableSort(SubSeq(s, 1, Len(s) - 1)), s[Len(s)])

\* {f"{pre}|{post}": freq ...}: one entry for each pair, at the place of its
\* first line, holding the frequency of its last line
RECURSIVE FreqDict(_, _, _)
FreqDict(completions, i, d) ==
    IF i > Len(completions)
    THEN d
    ELSE LET c == completions[i]
             same == {j \in 1..Len(d) : d[j].pre = c.pre /\ d[j].post = c.post}
         IN  FreqDict(completions, i + 1,
                 IF same = {}
                 THEN Append(d, c)
                 ELSE [j \in 1..Len(d) |-> IF j \in same THEN c ELSE d[j]])

\* sorted(wordlist.values(), reverse=True)
FreqsDescending(d) ==
    LET s == StableSort([j \in 1..Len(d) |-> [key |-> <<-d[j].freq, 0>>]])
    IN  [j \in 1..Len(s) |-> -s[j].key[1]]

Clamp(index, n) == IF index < 0 THEN 0 ELSE IF index > n - 1 THEN n - 1 ELSE index

get_percentile_freq(d, percentile) ==
    IF Len(d) = 0
    THEN FreqDen
    ELSE FreqsDescending(d)[Clamp((Len(d) * percentile) \div 100, Len(d)) + 1]

\* a rank counted from the top whatever its sign
get_rank_freqFromTop(d, rank) ==
    IF Len(d) = 0
    THEN FreqDen
    ELSE FreqsDescending(d)[Clamp((IF rank > 0 THEN rank ELSE -rank) - 1, Len(d)) + 1]

get_rank_freq(d, rank) ==
    IF Len(d) = 0
    THEN FreqDen
    ELSE IF rank > 0
         THEN FreqsDescending(d)[Clamp(rank - 1, Len(d)) + 1]
         ELSE FreqsDescending(d)[Clamp(Len(d) + rank, Len(d)) + 1]

\* calculate_weight: the multiplier, or err when it raises
calculate_weight(weight, reference) ==
    IF weight.kind = "abs"
    THEN [err |-> "ok", value |-> weight.value * FreqDen]
    ELSE IF weight.kind = "pct"
    THEN IF weight.value < 0 \/ weight.value > 100
         THEN [err |-> "ValueError", value |-> 0]
         ELSE [err |-> "ok", value |-> get_percentile_freq(reference, weight.value)]
    ELSE IF weight.kind = "rank"
    THEN IF weight.value = 0
         THEN [err |-> "ValueError", value |-> 0]
         ELSE [err |-> "ok", value |-> get_rank_freq(reference, weight.value)]
    ELSE [err |-> "ValueError", value |-> 0]

Min(a, b) == IF a < b THEN a ELSE b

\* weights in which the caller's weight goes before the file's own
FinalWeightsCallerFirst(srcs, weights) ==
    [s \in 1..Len(srcs) |->
        IF weights # NoWeights /\ s <= Len(weights)
        THEN weights[s]
        ELSE IF srcs[s].file_weight # NoWeight THEN srcs[s].file_weight ELSE DefaultWeight]

\* file weights override the weights argument, pairwise as zip pairs them
FinalWeights(srcs, weights) ==
    LET given == IF weights = NoWeights
                 THEN [s \in 1..Len(srcs) |-> DefaultWeight]
                 ELSE weights
    IN  [s \in 1..Min(Len(srcs), Len(given)) |->
            IF srcs[s].file_weight # NoWeight THEN srcs[s].file_weight ELSE given[s]]

ActualWeightsOwn(srcs, final) ==
    [s \in 1..Len(srcs) |->
        calculate_weight(final[s], FreqDict(srcs[s].completions, 1, <<>>))]

\* the resolved multiplier of every source; the first file is the reference
ActualWeights(srcs, final) ==
    [s \in 1..Len(srcs) |->
        calculate_weight(final[s], FreqDict(srcs[1].completions, 1, <<>>))]

\* every line of every source, sources in order, lines in order
RECURSIVE Occurrences(_, _)
Occurrences(srcs, s) ==
    IF s > Len(srcs)
    THEN <<>>
    ELSE [i \in 1..Len(srcs[s].completions) |->
             [src |-> s, index |-> i,
              pre |-> srcs[s].completions[i].pre,
              post |-> srcs[s].completions[i].post,
              freq |-> srcs[s].completions[i].freq]]
         \o Occurrences(srcs, s + 1)

\* words of the trie of a source: (pre + post, freq * weight)
SourceWords(completions, weight) ==
    [i \in 1..Len(completions) |->
        [word |-> completions[i].pre \o completions[i].post,
         freq |-> completions[i].freq * weight]]

\* node.auto_suffix = post at the node of every prefix, in line order
RECURSIVE SetAutoSuffixes(_, _, _)
SetAutoSuffixes(T, completions, i) ==
    IF i > Len(completions)
    THEN T
    ELSE SetAutoSuffixes(
             [T EXCEPT ![completions[i].pre].auto_suffix = Some(completions[i].post)],
             completions, i + 1)

SourceTrie(completions, weight) ==
    SetAutoSuffixes(build(SourceWords(completions, weight)), completions, 1)

\* completion_to_tries: for every pair, in order of first line, its summed
\* weighted frequency and the tries holding it
RECURSIVE CompletionToTries(_, _, _, _)
CompletionToTries(occ, W, i, acc) ==
    IF i > Len(occ)
    THEN acc
    ELSE LET o == occ[i]
             same == {j \in 1..Len(acc) : acc[j].pre = o.pre /\ acc[j].post = o.post}
         IN  CompletionToTries(occ, W, i + 1,
                 IF same = {}
                 THEN Append(acc, [pre |-> o.pre, post |-> o.post,
                                   total |-> o.freq * W[o.src],
                                   trie_indices |-> <<o.src>>])
                 ELSE [j \in 1..Len(acc) |->
                          IF j \in same
                          THEN [acc[j] EXCEPT !.total = @ + o.freq * W[o.src],
                                              !.trie_indices = Append(@, o.src)]
                          ELSE acc[j]])

\* prefix_to_completions: the prefixes in order of first appearance
RECURSIVE Prefixes(_, _, _)
Prefixes(c2t, i, acc) ==
    IF i > Len(c2t)
    THEN acc
    ELSE Prefixes(c2t, i + 1,
             IF \E j \in 1..Len(acc) : acc[j] = c2t[i].pre
             THEN acc
             ELSE Append(acc, c2t[i].pre))

\* prefix_to_completions[pre]
RECURSIVE CompletionsOf(_, _, _)
CompletionsOf(c2t, pre, i) ==
    IF i > Len(c2t)
    THEN <<>>
    ELSE (IF c2t[i].pre = pre THEN <<c2t[i]>> ELSE <<>>)
         \o CompletionsOf(c2t, pre, i + 1)

\* completions_list.sort(key = total, reverse = True)
SortByTotal(list) ==
    LET s == StableSort([j \in 1..Len(list) |-> [key |-> <<-list[j].total, 0>>,
                                                 item |-> list[j]]])
    IN  [j \in 1..Len(s) |-> s[j].item]

ClearSuffix(node) == IF HasSuffix(node) THEN [node EXCEPT !.auto_suffix = None] ELSE node

\* the loop of Node.disable over the characters of post
RECURSIVE DisablePath(_, _, _, _)
DisablePath(T, p, post, i) ==
    IF i > Len(post) \/ Append(p, post[i]) \notin DOMAIN T
    THEN T
    ELSE DisablePath([T EXCEPT ![Append(p, post[i])] = ClearSuffix(@)],
                     Append(p, post[i]), post, i + 1)

\* a disable that clears the node of the prefix only
disablePrefixOnly(T, pre, post) ==
    IF pre \notin DOMAIN T THEN T ELSE [T EXCEPT ![pre] = ClearSuffix(@)]

\* Node.disable
disable(T, pre, post) ==
    IF pre \notin DOMAIN T
    THEN T
    ELSE DisablePath([T EXCEPT ![pre] = ClearSuffix(@)], pre, post, 1)

\* disable one losing completion in every trie that holds it
RECURSIVE DisableInTries(_, _, _, _)
DisableInTries(Ts, loser, pre, k) ==
    IF k > Len(loser.trie_indices)
    THEN Ts
    ELSE DisableInTries(
             [Ts EXCEPT ![loser.trie_indices[k]] = disable(@, pre, loser.post)],
             loser, pre, k + 1)

\* completions_list[1:]
RECURSIVE DisableLosers(_, _, _, _)
DisableLosers(Ts, sorted, pre, j) ==
    IF j > Len(sorted)
    THEN Ts
    ELSE DisableLosers(DisableInTries(Ts, sorted[j], pre, 1), sorted, pre, j + 1)

\* the conflict loop over the prefixes
RECURSIVE ResolveConflicts(_, _, _, _)
ResolveConflicts(Ts, c2t, prefixes, n) ==
    IF n > Len(prefixes)
    THEN Ts
    ELSE Bind(CompletionsOf(c2t, prefixes[n], 1), LAMBDA list :
            ResolveConflicts(
                IF Len(list) <= 1
                THEN Ts
                ELSE DisableLosers(Ts, SortByTotal(list), prefixes[n], 2),
                c2t, prefixes, n + 1))

\* a check that finds no completion disabled
IsDisabledNever(T, o) == FALSE

IsDisabled(T, o) == T[o.pre].auto_suffix # Some(o.post)

\* final_completions: pair -> (summed weighted frequency, least line index)
RECURSIVE FinalCompletions(_, _, _, _, _)
FinalCompletions(Ts, occ, W, i, acc) ==
    IF i > Len(occ)
    THEN acc
    ELSE LET o == occ[i]
             same == {j \in 1..Len(acc) : acc[j].pre = o.pre /\ acc[j].post = o.post}
         IN  FinalCompletions(Ts, occ, W, i + 1,
                 IF IsDisabled(Ts[o.src], o)
                 THEN acc
                 ELSE IF same = {}
                 THEN Append(acc, [pre |-> o.pre, post |-> o.post,
                                   freq |-> o.freq * W[o.src], index |-> o.index])
                 ELSE [j \in 1..Len(acc) |->
                          IF j \in same
                          THEN [acc[j] EXCEPT !.freq = @ + o.freq * W[o.src],
                                              !.index = Min(@, o.index)]
                          ELSE acc[j]])

RoundedUp(x) == (x + FreqDen * FreqDen - 1) \div (FreqDen * FreqDen)

\* int(round(x)) of the weighted frequency x: to the nearest whole number,
\* a half to the even one
RoundedFreq(x) ==
    LET unit == FreqDen * FreqDen
        q == x \div unit
        r == x % unit
    IN  IF 2 * r < unit THEN q
        ELSE IF 2 * r > unit THEN q + 1
        ELSE IF q % 2 = 0 THEN q ELSE q + 1

\* sorted(final_completions.items(), key = (-freq, index)), formatted
OutputLines(final) ==
    LET s == StableSort([j \in 1..Len(final) |->
                            [key |-> <<-final[j].freq, final[j].index>>,
                             item |-> final[j]]])
    IN  [j \in 1..Len(s) |->
            [pre |-> s[j].item.pre, post |-> s[j].item.post,
             freq |-> RoundedFreq(s[j].item.freq)]]

NoTries == <<>>

\* merge_completions from the tries on, given the resolved weights W
MergeResolved(srcs, W) ==
    Bind(Occurrences(srcs, 1), LAMBDA occ :
    Bind(CompletionToTries(occ, W, 1, <<>>), LAMBDA c2t :
    Bind(ResolveConflicts(
             [s \in 1..Len(srcs) |-> SourceTrie(srcs[s].completions, W[s])],
             c2t, Prefixes(c2t, 1, <<>>), 1), LAMBDA Ts :
        [err |-> "ok", weights |-> W, tries |-> Ts,
         output |-> OutputLines(FinalCompletions(Ts, occ, W, 1, <<>>))])))

MergeFailed(e) == [err |-> e, weights |-> <<>>, tries |-> NoTries, output |-> <<>>]

merge_completions(srcs, weights) ==
    Bind(FinalWeights(srcs, weights), LAMBDA final :
        IF Len(final) # Len(srcs)
        THEN MergeFailed("ValueError")
        ELSE Bind(ActualWeights(srcs, final), LAMBDA aw :
            IF \E s \in 1..Len(srcs) : aw[s].err # "ok"
            THEN MergeFailed("ValueError")
            ELSE MergeResolved(srcs, [s \in 1..Len(srcs) |-> aw[s].value])))

(***************************************************************************)
(* A merge run: the sources are filled line by line, then merged.          *)
(***************************************************************************)
RECURSIVE TotalLines(_, _)
TotalLines(srcs, s) ==
    IF s > Len(srcs) THEN 0 ELSE Len(srcs[s].completions) + TotalLines(srcs, s + 1)

InitMerge ==
    /\ NavIdle
    /\ DfsIdle
    /\ MergeIdle
    /\ FileIdle

AddLine(s, line) ==
    /\ mstage = "input"
    /\ TotalLines(sources, 1) < MaxLines
    /\ sources' = [sources EXCEPT ![s].completions = Append(@, line)]
    /\ UNCHANGED <<mstage, arg_weights, actual_weights, tries, output, merge_result>>
    /\ UNCHANGED <<navVars, dfsVars, fileVars>>

SetFileWeight(s, w) ==
    /\ mstage = "input"
    /\ sources[s].file_weight = NoWeight
    /\ sources' = [sources EXCEPT ![s].file_weight = w]
    /\ UNCHANGED <<mstage, arg_weights, actual_weights, tries, output, merge_result>>
    /\ UNCHANGED <<navVars, dfsVars, fileVars>>

\* the file of source 1 is supplied again as source 2
SameFileTwice ==
    /\ mstage = "input"
    /\ sources[1].completions # <<>>
    /\ sources[2] # sources[1]
    /\ sources' = [sources EXCEPT ![2] = sources[1]]
    /\ UNCHANGED <<mstage, arg_weights, actual_weights, tries, output, merge_result>>
    /\ UNCHANGED <<navVars, dfsVars, fileVars>>

MergeCompletions(ws) ==
    /\ mstage = "input"
    /\ \E r \in {merge_completions(sources, ws)} :
        /\ merge_result' = r.err
        /\ actual_weights' = r.weights
        /\ tries' = r.tries
        /\ output' = r.output
    /\ arg_weights' = ws
    /\ mstage' = "merged"
    /\ UNCHANGED sources
    /\ UNCHANGED <<navVars, dfsVars, fileVars>>

NextMerge ==
    \/ \E s \in SourceIds, line \in LinePool : AddLine(s, line)
    \/ \E s \in SourceIds, w \in FileWeightPool : SetFileWeight(s, w)
    \/ SameFileTwice
    \/ \E ws \in WeightLists : MergeCompletions(ws)

SpecMerge == InitMerge /\ [][NextMerge]_vars

(***************************************************************************)
(* Reading a completion file.  A line is what the readers look at: head is *)
(* "WEIGHT=" when the stripped line starts with it, text the characters    *)
(* that follow up to the last " #", freq_str what stands after that " #".  *)
(***************************************************************************)
Line(head, text, freq_str) == [head |-> head, text |-> text, freq_str |-> freq_str]

\* "a|bc #3", "ab|c", "WEIGHT=2", a blank line, "abc", "a|b #x"
FileLinePool ==
    { Line("", <<"a", "|", "b", "c">>, Some("3")),
      Line("", <<"a", "b", "|", "c">>, None),
      Line("WEIGHT=", <<"2">>, None),
      Line("", <<>>, None),
      Line("", <<"a", "b", "c">>, None),
      Line("", <<"a", "|", "b">>, Some("x")) }

\* the number a one-digit string stands for, -1 when float() and \d+ refuse it
Digit(tok) ==
    CASE tok = "1" -> 1
      [] tok = "2" -> 2
      [] tok = "3" -> 3
      [] OTHER -> -1

\* the place of the first "|" of text, 0 when there is none
BarAt(text) ==
    IF \E k \in 1..Len(text) : text[k] = "|"
    THEN CHOOSE k \in 1..Len(text) : text[k] = "|" /\ \A j \in 1..(k - 1) : text[j] # "|"
    ELSE 0

IsBlank(line) == line.head = "" /\ line.text = <<>> /\ line.freq_str = None

\* the characters of the line before its " #"
CompletionStr(line) == (IF line.head = "" THEN <<>> ELSE <<line.head>>) \o line.text

\* the loop of parse_completion_file_with_weight from line i on
RECURSIVE ParseLines(_, _, _, _)
ParseLines(lines, i, first_line_processed, acc) ==
    IF i > Len(lines)
    THEN acc
    ELSE LET line == lines[i]
             str == CompletionStr(line)
             bar == BarAt(str)
             pre == SubSeq(str, 1, bar - 1)
             rest == SubSeq(str, bar + 1, Len(str))
             freq == IF line.freq_str = None THEN FreqDen ELSE Digit(line.freq_str[1]) * FreqDen
         IN  IF IsBlank(line)
             THEN ParseLines(lines, i + 1, first_line_processed, acc)
             ELSE IF ~first_line_processed /\ line.head = "WEIGHT="
             THEN ParseLines(lines, i + 1, TRUE,
                      IF line.text = <<>>
                      THEN acc
                      ELSE [acc EXCEPT !.file_weight = Absolute(Digit(line.text[1]))])
             ELSE IF line.freq_str # None /\ Digit(line.freq_str[1]) < 0
             THEN ParseLines(lines, i + 1, TRUE, acc)
             ELSE IF bar = 0
             THEN ParseLines(lines, i + 1, TRUE, acc)
             ELSE IF rest # <<>> /\ rest[1] = "|"
             THEN ParseLines(lines, i + 1, TRUE,
                      [acc EXCEPT !.completions =
                          Append(@, [pre |-> pre,
                                     post |-> [j \in 1..Len(pre) |-> BS] \o Tail(rest),
                                     freq |-> freq])])
             ELSE ParseLines(lines, i + 1, TRUE,
                      [acc EXCEPT !.completions =
                          Append(@, [pre |-> pre, post |-> rest, freq |-> freq])])

parse_completion_file_with_weight(lines) ==
    ParseLines(lines, 1, FALSE, [completions |-> <<>>, file_weight |-> NoWeight])

\* the same loop, the weight left aside
parse_completion_file(lines) == parse_completion_file_with_weight(lines).completions

\* CoreTrie.insert from line i on: re.match(...).groups() raises when the
\* line does not match ^([^|]+)\|([^#]+)( #(\d+))?$
RECURSIVE insert(_, _, _, _)
insert(T, lines, i, idx) ==
    IF i > Len(lines)
    THEN [err |-> "ok", T |-> T]
    ELSE LET line == lines[i]
             str == CompletionStr(line)
             bar == BarAt(str)
             matched == /\ bar > 1
                        /\ bar < Len(str)
                        /\ line.freq_str # None => Digit(line.freq_str[1]) >= 0
         IN  IF IsBlank(line)
             THEN insert(T, lines, i + 1, idx)
             ELSE IF ~matched
             THEN [err |-> "AttributeError", T |-> T]
             ELSE insert(insert_pair(T, SubSeq(str, 1, bar - 1), SubSeq(str, bar + 1, Len(str)),
                                     IF line.freq_str = None THEN 1 ELSE Digit(line.freq_str[1]),
                                     idx),
                         lines, i + 1, idx + 1)

\* the weights argument given with one file
RankPool == {Rank(0), Rank(2), Rank(3), Rank(-1), Rank(-2), Rank(-3)}

CallerWeights == {NoWeights} \cup {<<w>> : w \in WeightPool \cup RankPool}

InitFile ==
    /\ NavIdle
    /\ DfsIdle
    /\ MergeIdle
    /\ FileIdle

\* one more line in the file, before anything has read it
WriteLine(line) ==
    /\ plain.err = "none" /\ loaded.err = "none" /\ file_merge.result.err = "none"
    /\ Len(file) < MaxLines
    /\ file' = Append(file, line)
    /\ UNCHANGED <<plain, loaded, file_merge>>
    /\ UNCHANGED <<navVars, dfsVars, mergeVars>>

ParseCompletionFile ==
    /\ plain.err = "none"
    /\ plain' = [err |-> "ok", completions |-> parse_completion_file(file)]
    /\ UNCHANGED <<file, loaded, file_merge>>
    /\ UNCHANGED <<navVars, dfsVars, mergeVars>>

\* CoreTrie.from_words(*lines)
FromWords ==
    /\ loaded.err = "none"
    /\ loaded' = insert(EmptyTrie, file, 1, 1)
    /\ UNCHANGED <<file, plain, file_merge>>
    /\ UNCHANGED <<navVars, dfsVars, mergeVars>>

\* merge_completions([file], weights = ws)
MergeFile(ws) ==
    /\ file_merge.result.err = "none"
    /\ \E src \in {parse_completion_file_with_weight(file)} :
          file_merge' = [caller |-> ws, source |-> src,
                         result |-> merge_completions(<<src>>, ws)]
    /\ UNCHANGED <<file, plain, loaded>>
    /\ UNCHANGED <<navVars, dfsVars, mergeVars>>

NextFile ==
    \/ \E line \in FileLinePool : WriteLine(line)
    \/ ParseCompletionFile
    \/ FromWords
    \/ \E ws \in CallerWeights : MergeFile(ws)

SpecFile == InitFile /\ [][NextFile]_vars

(***************************************************************************)
(* Claims about merging *)
(***************************************************************************)
Merged == mstage = "merged" /\ merge_result = "ok"

AllLines == Occurrences(sources, 1)

ProposedPrefixes == {AllLines[i].pre : i \in 1..Len(AllLines)}

ProposedFor(pre) == {AllLines[i].post : i \in {j \in 1..Len(AllLines) : AllLines[j].pre = pre}}

RECURSIVE SummedWeighted(_, _, _)
SummedWeighted(pre, post, i) ==
    IF i > Len(AllLines)
    THEN 0
    ELSE (IF AllLines[i].pre = pre /\ AllLines[i].post = post
          THEN AllLines[i].freq * actual_weights[AllLines[i].src]
          ELSE 0)
         + SummedWeighted(pre, post, i + 1)

InOutput(pre, post) == \E j \in 1..Len(output) : output[j].pre = pre /\ output[j].post = post

Highest(pre, post) ==
    \A other \in ProposedFor(pre) :
        SummedWeighted(pre, post, 1) >= SummedWeighted(pre, other, 1)

\* C10: after merge_completions, for every prefix proposed with two or more
\* different completions, the output contains a completion whose summed
\* weighted frequency is highest for that prefix, and none of the
\* completions of that prefix whose sum is lower.
C10_HighestCompletionKept ==
    Merged =>
        \A pre \in ProposedPrefixes :
            Cardinality(ProposedFor(pre)) >= 2 =>
                /\ \E post \in ProposedFor(pre) :
                       Highest(pre, post) /\ InOutput(pre, post)
                /\ \A post \in ProposedFor(pre) :
                       InOutput(pre, post) => Highest(pre, post)

\* the place of the first line proposing (pre, post), sources in the order
\* supplied, lines in order
FirstDeclared(pre, post) ==
    CHOOSE i \in 1..Len(AllLines) :
        /\ AllLines[i].pre = pre /\ AllLines[i].post = post
        /\ \A j \in 1..(i - 1) : ~(AllLines[j].pre = pre /\ AllLines[j].post = post)

\* C11: after merge_completions, when two or more different completions of
\* one prefix share the highest summed weighted frequency, the one declared
\* first (earlier source, or earlier line within a source) is in the output
\* and the others are not.
C11_TieKeepsFirstDeclared ==
    Merged =>
        \A pre \in ProposedPrefixes :
            \A post, other \in ProposedFor(pre) :
                ( /\ post # other
                  /\ Highest(pre, post)
                  /\ Highest(pre, other)
                  /\ \A third \in ProposedFor(pre) :
                        Highest(pre, third) =>
                            FirstDeclared(pre, post) <= FirstDeclared(pre, third) )
                => InOutput(pre, post) /\ ~InOutput(pre, other)

\* the same triples were supplied as two sources, both with weight 1.0
SelfMerge ==
    /\ Merged
    /\ sources[1].completions = sources[2].completions
    /\ sources[1].completions # <<>>
    /\ \A s \in SourceIds : sources[s].file_weight = NoWeight
    /\ arg_weights \in {NoWeights, <<Absolute(1), Absolute(1)>>}

\* the frequency of a pair in the input set, times FreqDen
RECURSIVE InputFreq(_, _, _)
InputFreq(pre, post, i) ==
    IF i > Len(sources[1].completions)
    THEN 0
    ELSE (IF sources[1].completions[i].pre = pre /\ sources[1].completions[i].post = post
          THEN sources[1].completions[i].freq
          ELSE 0)
         + InputFreq(pre, post, i + 1)

DistinctPrefixes ==
    \A i, j \in 1..Len(sources[1].completions) :
        sources[1].completions[i].pre = sources[1].completions[j].pre
            => sources[1].completions[i].post = sources[1].completions[j].post

EveryInputPairSurvives ==
    DistinctPrefixes =>
        \A i \in 1..Len(sources[1].completions) :
            InOutput(sources[1].completions[i].pre, sources[1].completions[i].post)

\* C12 as stated: merging a completion set with itself, both weights 1.0,
\* gives every surviving pair exactly twice its frequency in the input set,
\* and every input pair survives when the prefixes are pairwise distinct.
C12_SelfMergeDoublesExactly ==
    SelfMerge =>
        /\ \A j \in 1..Len(output) :
               output[j].freq * FreqDen = 2 * InputFreq(output[j].pre, output[j].post, 1)
        /\ EveryInputPairSurvives

\* C12 amended: the frequency written for a surviving pair is twice its
\* frequency in the input set rounded to the nearest whole number, a half
\* going to the even one (so it is exactly twice whenever twice the input
\* frequency is whole), and every input pair survives when the prefixes are
\* pairwise distinct.
C12_SelfMergeDoublesRounded ==
    SelfMerge =>
        /\ \A j \in 1..Len(output) :
            LET twice == 2 * InputFreq(output[j].pre, output[j].post, 1)
                gap == output[j].freq * FreqDen - twice
            IN  /\ 2 * gap <= FreqDen
                /\ 2 * gap >= -FreqDen
                /\ (2 * gap = FreqDen \/ 2 * gap = -FreqDen) => output[j].freq % 2 = 0
        /\ EveryInputPairSurvives

\* the set {do|t #0.25, d|og #4} was merged with itself: 'd|og' is written
\* with 8 and 'do|t' with 0
C12_Witness ==
    /\ SelfMerge
    /\ Len(sources[1].completions) = 2
    /\ output = << [pre |-> <<"d">>, post |-> <<"o", "g">>, freq |-> 8],
                   [pre |-> <<"d", "o">>, post |-> <<"t">>, freq |-> 0] >>

\* C13: the output of merge_completions is ordered by summed weighted
\* frequency, highest first, and two output triples with equal frequency
\* appear in the order of their first appearance, all of source 1's lines
\* coming before source 2's lines.
C13_OrderedByFreqThenAppearance ==
    Merged =>
        \A j, k \in 1..Len(output) :
            j < k =>
                LET fj == SummedWeighted(output[j].pre, output[j].post, 1)
                    fk == SummedWeighted(output[k].pre, output[k].post, 1)
                IN  /\ fj >= fk
                    /\ fj = fk =>
                           FirstDeclared(output[j].pre, output[j].post)
                               < FirstDeclared(output[k].pre, output[k].post)

\* the weight in force for source s: the file's own, else the caller's,
\* else the default
EffectiveWeight(s) ==
    IF sources[s].file_weight # NoWeight
    THEN sources[s].file_weight
    ELSE IF arg_weights = NoWeights THEN DefaultWeight ELSE arg_weights[s]

\* the pairs of the first source, each with the frequency of its last line
RefPairs ==
    {<<sources[1].completions[i].pre, sources[1].completions[i].post>> :
        i \in 1..Len(sources[1].completions)}

RefFreq(pair) ==
    LET lines == {i \in 1..Len(sources[1].completions) :
                     <<sources[1].completions[i].pre, sources[1].completions[i].post>> = pair}
        last == CHOOSE i \in lines : \A j \in lines : j <= i
    IN  sources[1].completions[last].freq

\* m is the frequency at percentile rank p of the first source: with the n
\* frequencies in descending order it stands at place floor(n * p / 100),
\* counted from 0 and capped at n - 1
AtPercentile(m, p) ==
    LET n == Cardinality(RefPairs)
        place == IF (n * p) \div 100 > n - 1 THEN n - 1 ELSE (n * p) \div 100
    IN  /\ \E pair \in RefPairs : RefFreq(pair) = m
        /\ Cardinality({pair \in RefPairs : RefFreq(pair) > m}) <= place
        /\ place < Cardinality({pair \in RefPairs : RefFreq(pair) >= m})

ExampleReference ==
    << [pre |-> <<"a">>, post |-> <<"x">>, freq |-> 100 * FreqDen],
       [pre |-> <<"b">>, post |-> <<"x">>, freq |-> 50 * FreqDen],
       [pre |-> <<"c">>, post |-> <<"x">>, freq |-> 10 * FreqDen] >>

ExampleGives50 ==
    calculate_weight(Percentile(50), ExampleReference) = [err |-> "ok", value |-> 50 * FreqDen]

C15_ReadOnlyStepNeverRaises ==
    phase = "nav" => ~raised

\* a and b are the same node object
SameNode(a, b) ==
    /\ a.st = b.st
    /\ a.st => a.path = b.path
    /\ ~a.st => a.prefix = b.prefix /\ a.kids = b.kids /\ a.completion = b.completion

\* C16: backspace stepped when the accumulated text is empty returns a
\* cursor with empty accumulated text whose completion and children are
\* those of the root; accept() or tab at a node whose completion is empty
\* returns the same node with the same accumulated text; neither raises.
C16_EdgeStepsAreNoOps ==
    [][(phase = "nav" /\ Len(keys'[1]) = Len(keys[1]) + 1) =>
          \A last \in {keys'[1][Len(keys'[1])]} :
              /\ (last = BS /\ NFullText(trie, cur[1]) = <<>>) =>
                     /\ ~raised'
                     /\ NFullText(trie', cur'[1]) = <<>>
                     /\ NCompletion(trie', cur'[1]) = NCompletion(trie', Root)
                     /\ ChildKeys(trie', cur'[1]) = ChildKeys(trie', Root)
              /\ (last \in {TAB, ACCEPT} /\ NCompletion(trie, cur[1]) = <<>>) =>
                     /\ ~raised'
                     /\ SameNode(cur'[1], cur[1])
                     /\ NFullText(trie', cur'[1]) = NFullText(trie, cur[1])]_vars

\* on a trie holding 'a|bc': backspace at the start, then tab on the
\* cursor it returned, whose completion is empty
C16_Witness ==
    /\ phase = "nav" /\ ~raised
    /\ inserted = <<1>>
    /\ keys[1] = <<BS, TAB>>
    /\ NFullText(trie, cur[1]) = <<>>
    /\ ChildKeys(trie, cur[1]) = {"a"}

\* The nodes stored in children mappings are the paths of the heap, so the
\* child keys of every node are the same when the heap has the same paths.
\* C17: after any sequence of read-only steps (walk_to without creation,
\* tab and backspace included, and accept()), every node of the trie that
\* existed before has the same child keys, the same completion and the same
\* frequency as before, and no node has been added to a children mapping.
C17_ReadOnlyStepsKeepTrie ==
    phase = "nav" =>
        /\ DOMAIN trie = DOMAIN built
        /\ \A p \in DOMAIN built :
               /\ trie[p].completion = built[p].completion
               /\ trie[p].freq = built[p].freq

\* on a trie holding 'a|bc': 'a', tab, backspace and accept() were stepped,
\* and the text written on the node reached is all that differs
C17_Witness ==
    /\ phase = "nav" /\ ~raised
    /\ inserted = <<1>>
    /\ keys[1] = <<"a", TAB, BS, ACCEPT>>
    /\ trie # built

\* the longest trailing run of letters and apostrophes of s
RECURSIVE TrailingLetters(_)
TrailingLetters(s) ==
    IF Len(s) = 0 \/ ~is_alpha(s[Len(s)]) THEN <<>>
    ELSE Append(TrailingLetters(SubSeq(s, 1, Len(s) - 1)), s[Len(s)])

\* C20: the cursor after a backspace depends only on the accumulated text
\* and the trie: whatever the keystrokes before it were, it has the node
\* (prefix, completion, children) reached by walking from the root the
\* longest trailing run of letters and apostrophes of the text without its
\* last character, and that shortened text as its accumulated text.
C20_BackspaceDependsOnTextOnly ==
    LET ks == keys[1]
    IN  (phase = "nav" /\ ~raised /\ Len(ks) >= 1 /\ ks[Len(ks)] = BS) =>
            LET r == Before(ks, Len(ks) - 1)
                rest == DropLast(NFullText(r.T, r.node))
                w == Replay(built, Root, TrailingLetters(rest))
            IN  View(trie, cur[1]) = [View(w.T, w.node) EXCEPT !.full_text = rest]

(***************************************************************************)
(* Claims about reading files *)
(***************************************************************************)
FileMerged == file_merge.result.err = "ok"

\* the place of the first non-blank line of the file, 0 when there is none
FirstNonBlank ==
    IF \A i \in 1..Len(file) : IsBlank(file[i])
    THEN 0
    ELSE CHOOSE i \in 1..Len(file) :
             ~IsBlank(file[i]) /\ \A j \in 1..(i - 1) : IsBlank(file[j])

DeclaresWeight == FirstNonBlank > 0 /\ file[FirstNonBlank].head = "WEIGHT="

\* the weight the file should get: its own, else the caller's, else 1.0
ExpectedWeight ==
    IF DeclaresWeight
    THEN Absolute(Digit(file[FirstNonBlank].text[1]))
    ELSE IF file_merge.caller # NoWeights THEN file_merge.caller[1] ELSE Absolute(1)

\* the lines that hold a prefix, a "|" and, if any, a number after " #"
PairLines ==
    {i \in 1..Len(file) :
        /\ file[i].head = ""
        /\ \E k \in 1..Len(file[i].text) : file[i].text[k] = "|"
        /\ file[i].freq_str # None => file[i].freq_str[1] \in {"1", "2", "3"}}

\* C18: the effective merge weight of a file is the value of its WEIGHT=
\* first line when that line is present, otherwise the weight the caller
\* supplied, otherwise 1.0; a WEIGHT= line is recognised only as the first
\* non-blank line and never produces a completion triple.
C18_FileWeightFirst ==
    FileMerged =>
        /\ file_merge.result.weights[1] =
               calculate_weight(ExpectedWeight,
                                FreqDict(file_merge.source.completions, 1, <<>>)).value
        /\ file_merge.source.file_weight # NoWeight <=> DeclaresWeight
        /\ Len(file_merge.source.completions) = Cardinality(PairLines)
        /\ \A j \in 1..Len(file_merge.source.completions) :
               \E i \in PairLines :
                   file_merge.source.completions[j].pre
                       = SubSeq(file[i].text, 1, BarAt(file[i].text) - 1)

\* a blank line, WEIGHT=2, then 'a|bc #3', merged with the caller's weight
\* 1: the multiplier is 2 and 'a|bc' is written with 6
C18_Witness ==
    /\ FileMerged
    /\ file = << Line("", <<>>, None), Line("WEIGHT=", <<"2">>, None),
                 Line("", <<"a", "|", "b", "c">>, Some("3")) >>
    /\ file_merge.caller = <<Absolute(1)>>
    /\ file_merge.result.weights = <<2 * FreqDen>>
    /\ file_merge.result.output = << [pre |-> <<"a">>, post |-> <<"b", "c">>, freq |-> 6] >>

\* C19: reading completion lines is non-fatal on malformed input: a line
\* without "|" or whose frequency is not a number is skipped, the other
\* lines are still read and no error is raised, by parse_completion_file
\* and likewise when the lines are loaded with CoreTrie.insert/from_words.
C19_MalformedLinesSkipped ==
    /\ plain.err = "ok" =>
           /\ Len(plain.completions) = Cardinality(PairLines)
           /\ \A j \in 1..Len(plain.completions) :
                  \E i \in PairLines :
                      plain.completions[j].pre
                          = SubSeq(file[i].text, 1, BarAt(file[i].text) - 1)
    /\ loaded.err # "none" =>
           /\ loaded.err = "ok"
           /\ \A i \in PairLines :
                  SubSeq(file[i].text, 1, BarAt(file[i].text) - 1) \in DOMAIN loaded.T

\* C21: a tab step at a node with completion c gives the same node and the
\* same accumulated text, the old text followed by c, as typing the
\* characters of c one by one and as accept(), and the cursor it returns has
\* num_accepted = len(c).
C21_TabIsTypingTheCompletion ==
    LET ks == keys[1]
    IN  (phase = "nav" /\ Len(ks) >= 1 /\ ks[Len(ks)] = TAB) =>
            LET r == Before(ks, Len(ks) - 1)
                c == NCompletion(r.T, r.node)
                typed == Replay(r.T, r.node, c)
                acc == accept(r.T, r.node)
            IN  /\ ~raised /\ ~typed.err /\ ~acc.err
                /\ NFullText(trie, cur[1]) = NFullText(r.T, r.node) \o c
                /\ View(trie, cur[1]) = View(typed.T, typed.node)
                /\ View(trie, cur[1]) = View(acc.T, acc.node)
                /\ SameNode(cur[1], typed.node) /\ SameNode(cur[1], acc.node)
                /\ NNumAccepted(trie, cur[1]) = Len(c)

\* the node a read-only step with ch lands on before any reset: it has no
\* completion and no children
LandsOnEmpty(T, n, ch) ==
    \/ Lower(ch) \notin ChildKeys(T, n)
    \/ is_empty(T, ChildAt(n, Lower(ch)))

\* C22: in read-only mode, when a step consumes a character that is neither
\* a letter or apostrophe nor tab or backspace and the node reached has no
\* completion and no children, the cursor returned has the root's children
\* and completion, an empty prefix, and as accumulated text the text before
\* the step followed by that character; a step that consumes a letter or an
\* apostrophe never moves the cursor to the root.
C22_ResetOnEmptyNode ==
    [][(phase = "nav" /\ ~raised' /\ Len(keys'[1]) = Len(keys[1]) + 1
            /\ keys'[1][Len(keys'[1])] \in Printable) =>
          \A ch \in {keys'[1][Len(keys'[1])]} :
              /\ (~is_alpha(ch) /\ LandsOnEmpty(trie, cur[1], ch)) =>
                     /\ NPrefix(trie', cur'[1]) = <<>>
                     /\ ChildKeys(trie', cur'[1]) = ChildKeys(trie', Root)
                     /\ NCompletion(trie', cur'[1]) = NCompletion(trie', Root)
                     /\ NFullText(trie', cur'[1]) = Append(NFullText(trie, cur[1]), ch)
              /\ is_alpha(ch) =>
                     /\ NPrefix(trie', cur'[1]) = Append(NPrefix(trie, cur[1]), Lower(ch))
                        \/ NPrefix(trie', cur'[1]) = Append(NPrefix(trie, cur[1]), ch)
                     /\ NFullText(trie', cur'[1]) = Append(NFullText(trie, cur[1]), ch)]_vars

\* on a trie holding 'a|bc': after 'a', a space lands on an empty node and
\* the cursor is back at the root with the text 'a '
C22_Witness ==
    /\ phase = "nav" /\ ~raised
    /\ inserted = <<1>>
    /\ keys[1] = <<"a", " ">>
    /\ NPrefix(trie, cur[1]) = <<>>
    /\ ChildKeys(trie, cur[1]) = {"a"}
    /\ NFullText(trie, cur[1]) = <<"a", " ">>

\* the pairs of the file, each with the frequency of its last line
FilePairs ==
    {<<file_merge.source.completions[i].pre, file_merge.source.completions[i].post>> :
        i \in 1..Len(file_merge.source.completions)}

FilePairFreq(pair) ==
    LET cs == file_merge.source.completions
        lines == {i \in 1..Len(cs) : <<cs[i].pre, cs[i].post>> = pair}
        last == CHOOSE i \in lines : \A j \in lines : j <= i
    IN  cs[last].freq

\* m is the k-th highest (from the top) or k-th lowest of the file's
\* frequencies, k capped at their number
AtRank(m, rank) ==
    LET n == Cardinality(FilePairs)
        size == IF rank > 0 THEN rank ELSE -rank
        k == IF size > n THEN n ELSE size
        above == Cardinality({pair \in FilePairs : FilePairFreq(pair) > m})
        below == Cardinality({pair \in FilePairs : FilePairFreq(pair) < m})
    IN  /\ \E pair \in FilePairs : FilePairFreq(pair) = m
        /\ rank > 0 => above <= k - 1 /\ k - 1 < n - below
        /\ rank < 0 => below <= k - 1 /\ k - 1 < n - above

\* the file was merged alone under a rank weight given by the caller
RankGiven ==
    /\ file_merge.result.err # "none"
    /\ file_merge.source.file_weight = NoWeight
    /\ file_merge.caller # NoWeights
    /\ file_merge.caller[1].kind = "rank"

JustPruned == stage = "dfs" /\ stage' = "pruned"

\* C24: prune after dfs removes exactly the subtrees rooted at children
\* whose has_auto is false: every node that had auto_suffix set is still
\* reachable by its prefix with the same auto_suffix, every remaining
\* non-root node has has_auto true, build_map returns the same mapping
\* before and after pruning, and pruning twice equals pruning once.
C24_PruneKeepsCompletions ==
    [][JustPruned =>
        /\ DOMAIN tree' =
              {q \in DOMAIN tree :
                  \A n \in 1..Len(q) :
                      tree[SubSeq(q, 1, n)].has_auto = Some(TRUE)}
        /\ \A q \in DOMAIN tree :
              tree[q].auto_suffix # None =>
                  /\ q \in DOMAIN tree'
                  /\ tree'[q].auto_suffix = tree[q].auto_suffix
        /\ \A q \in DOMAIN tree' :
              q # NodeRoot => tree'[q].has_auto = Some(TRUE)
        /\ \A q \in DOMAIN tree' :
              Range(tree'[q].children) = {c \in Chars : Append(q, c) \in DOMAIN tree'}
        /\ build_map(tree', NodeRoot, <<>>) = build_map(tree, NodeRoot, <<>>)
        /\ prune(tree', NodeRoot) = tree']_vars

\* a pruned trie that lost a subtree and kept a completion two levels down
C24_Witness ==
    /\ stage = "pruned"
    /\ \E q \in DOMAIN tree : Len(q) >= 2 /\ tree[q].auto_suffix # None
    /\ \E q \in DOMAIN build(word_list) : q \notin DOMAIN tree

\* the node at q, or a node below it, was given an auto selection
SelectedAtOrBelow(T, p) ==
    \E q \in DOMAIN T : IsPrefix(p, q) /\ T[q].auto_suffix # None

\* C25: after dfs, for every node, has_auto is true if and only if the node
\* itself was given an auto selection or at least one of its descendants
\* was.
C25_HasAutoIffSelectedBelow ==
    DfsDone =>
        \A p \in DOMAIN tree :
            /\ tree[p].has_auto # None
            /\ tree[p].has_auto = Some(TRUE) <=> SelectedAtOrBelow(tree, p)

\* dfs left a node with has_auto through a descendant only, and one without
C25_Witness ==
    /\ DfsDone
    /\ \E p \in DOMAIN tree :
          /\ tree[p].has_auto = Some(TRUE)
          /\ tree[p].auto_suffix = None
    /\ \E p \in DOMAIN tree :
          /\ tree[p].has_auto = Some(FALSE)
          /\ tree[p].children # <<>>

(***************************************************************************)
(* Further claims about merging *)
(***************************************************************************)
\* the summed weighted frequency of (pre, post) over the lines
RECURSIVE TotalIn(_, _, _, _)
TotalIn(lines, pre, post, i) ==
    IF i > Len(lines)
    THEN 0
    ELSE (IF lines[i].pre = pre /\ lines[i].post = post
          THEN lines[i].freq * actual_weights[lines[i].src]
          ELSE 0)
         + TotalIn(lines, pre, post, i + 1)

\* the line at place i proposes a completion that is not the one kept for
\* its prefix: another completion of the prefix has a higher sum, or the
\* same sum and an earlier first line
LosesIn(lines, totals, i) ==
    \E j \in 1..Len(lines) :
        /\ lines[j].pre = lines[i].pre
        /\ lines[j].post # lines[i].post
        /\ \/ totals[j] > totals[i]
           \/ /\ totals[j] = totals[i]
              /\ \E k \in 1..Len(lines) :
                    /\ lines[k].pre = lines[j].pre
                    /\ lines[k].post = lines[j].post
                    /\ \A m \in 1..k :
                          ~(lines[m].pre = lines[i].pre /\ lines[m].post = lines[i].post)

\* the nodes pre + post[0..n] of the losing completions of source s
ClearedPathsIn(lines, totals, s) ==
    UNION {{lines[i].pre \o SubSeq(lines[i].post, 1, n) :
                n \in 0..Len(lines[i].post)} :
           i \in {j \in 1..Len(lines) :
                    lines[j].src = s /\ LosesIn(lines, totals, j)}}

ClearedPaths(s) ==
    ClearedPathsIn(AllLines,
                   [i \in 1..Len(AllLines) |->
                       TotalIn(AllLines, AllLines[i].pre, AllLines[i].post, 1)],
                   s)

\* auto_suffix of the node q of a source before any conflict is resolved:
\* the completion of the last line of the source with that prefix
SuffixSet(completions, q) ==
    IF \E i \in 1..Len(completions) : completions[i].pre = q
    THEN Some(completions[CHOOSE i \in 1..Len(completions) :
                             /\ completions[i].pre = q
                             /\ \A j \in (i + 1)..Len(completions) :
                                   completions[j].pre # q].post)
    ELSE None

WeightCountDiffers ==
    /\ mstage = "merged"
    /\ arg_weights # NoWeights
    /\ Len(arg_weights) # Len(sources)

\* C27: merge_completions raises ValueError whenever the number of weights
\* the caller supplied differs from the number of input files, with fewer
\* weights than files and with more, and produces no output in that case.
C27_WeightCountMismatchRaises ==
    WeightCountDiffers =>
        /\ merge_result = "ValueError"
        /\ output = <<>>
        /\ tries = NoTries

\* the same words in the opposite order of insertion
Reversed(wl) == [i \in 1..Len(wl) |-> wl[Len(wl) + 1 - i]]

\* C28: the selection computed by dfs depends only on the set of (word,
\* frequency) pairs and the parameters, not on the order of insertion: for
\* two word lists that are permutations of each other, every prefix node
\* receives the same auto_suffix (or none) in both tries.
C28_SelectionIgnoresInsertionOrder ==
    DfsDone =>
        \A other \in {dfs(Reversed(word_list), build(Reversed(word_list)),
                          NodeRoot, RootPrefixLen, params)} :
            /\ other.err = "ok"
            /\ DOMAIN other.T = DOMAIN tree
            /\ \A p \in DOMAIN tree :
                  other.T[p].auto_suffix = tree[p].auto_suffix

\* C29: in the mapping build_map returns after dfs, no emitted prefix is a
\* proper prefix of another emitted prefix, each complete word appears at
\* most once, and every emitted pair satisfies prefix + completion = a word
\* of the word list that lies in the subtree of the prefix node.
C29_MapIsPrefixFree ==
    stage = "mapped" =>
        /\ \A i, j \in 1..Len(cmap) :
              IsPrefix(cmap[i].prefix, cmap[j].prefix) => i = j
        /\ \A i, j \in 1..Len(cmap) : cmap[i].word = cmap[j].word => i = j
        /\ \A i \in 1..Len(cmap) :
              /\ cmap[i].word = cmap[i].prefix \o cmap[i].completion
              /\ \E k \in 1..Len(word_list) : word_list[k].word = cmap[i].word
              /\ cmap[i].prefix \in DOMAIN tree
              /\ cmap[i].word \in DOMAIN tree
              /\ IsPrefix(cmap[i].prefix, cmap[i].word)
              /\ tree[cmap[i].word].word_id # NoneId

\* the map holds a pair whose prefix node has a selected node below it
C29_Witness ==
    /\ stage = "mapped"
    /\ \E i \in 1..Len(cmap) :
          \E q \in DOMAIN tree :
              /\ q # cmap[i].prefix
              /\ IsPrefix(cmap[i].prefix, q)
              /\ tree[q].auto_suffix # None

====
